---- MODULE Spec2Model ----
(***************************************************************************)
(* dsplit: edge detection and axis-aligned line extraction (src/main.rs).  *)
(*                                                                         *)
(* main() is a straight-line pipeline: load the raster, allocate the two   *)
(* difference grids, fill them row by row and column by column, threshold  *)
(* them, extract the runs as Lines, discard the short ones, render and     *)
(* save.  Each stage is one action; the two fill loops take one action per *)
(* loop iteration.                                                         *)
(*                                                                         *)
(* f32 values are fixed point numbers in units of 1e-4: 1.0 is 10000 and   *)
(* 0.0025 is 25.  usize is modelled 16 bits wide (TLC's integers are 32    *)
(* bits), which keeps the shape of the wrap-around of `0usize - 1`.        *)
(***************************************************************************)
EXTENDS Integers, Sequences, FiniteSets, TLC

VARIABLES
    pc,           \* position in main(): the stage that runs next
    img,          \* the decoded raster: [width, height, pixels]
    img_grid,     \* Grid of pixels built from the raster (main.rs:204)
    diff_grid_x,  \* column-difference grid; GridPair.0 after main.rs:237
    diff_grid_y,  \* row-difference grid;    GridPair.1 after main.rs:237
    row,          \* loop counter of "edges across columns" (main.rs:210)
    col,          \* loop counter of "edges across rows" (main.rs:224)
    written_x,    \* per cell of diff_grid_x: how often the builder wrote it
    written_y,    \* per cell of diff_grid_y: how often the builder wrote it
    lines,        \* the Vec<Line>
    size,         \* the argument of discard_shorter_than
    canvas,       \* the ImageBuffer to_image returned: [width, height, buf]
    underflow,    \* a usize subtraction went below zero
    clipped,      \* to_image's skip/take cut a Line at the canvas edge
    saved,        \* edges.png was written
    before        \* history: what the last in-place stage (filter, discard) was given

vars == <<pc, img, img_grid, diff_grid_x, diff_grid_y, row, col, written_x,
          written_y, lines, size, canvas, underflow, clipped, saved, before>>

----------------------------------------------------------------------------
(* Bounds of the model *)

\* general rasters: width in 0..MaxW, height in 0..MaxH, at most MaxPixels pixels
MaxW == 4
MaxH == 4
MaxPixels == 12
\* two-halves and uniform rasters: width in 0..MaxSplitW, height in 0..MaxSplitH
MaxSplitW == 4
MaxSplitH == 4
\* grid pairs given to filter: those of a raster of height 2, width 2..MaxFilterW
MaxFilterW == 2
\* lists given to discard_shorter_than: at most MaxLines Lines of len 1..MaxSegLen
MaxLines == 3
MaxSegLen == 3
\* canvases given to to_image: 1..MaxCanvas wide and high
MaxCanvas == 2

----------------------------------------------------------------------------
(* Program constants *)

\* the literal 1. of the run detector, in units of 1e-4
ONE == 10000
\* the normaliser of the difference grid builder: `/ 10000.`
K == 10000
\* the threshold 0.0025 of main's closure, in units of 1e-4
THRESHOLD == 25
\* the minimum length main passes to discard_shorter_than
MIN_LEN == 20

\* usize arithmetic: 2^16 stands for the target's 2^64
UsizeModulus == 2 ^ 16
\* Vec's capacity limit for 4-byte elements: isize::MAX / 4
AllocLimit == (UsizeModulus \div 2 - 1) \div 4

None == -1

----------------------------------------------------------------------------
(* Colours: Lab::from_rgb and Lab::squared_distance on three greys *)

Palette == {"black", "dark", "white"}
TwoTone == {"black", "white"}

\* L* of rgb(0,0,0), rgb(5,5,5), rgb(255,255,255) in hundredths; a = b = 0
from_rgb(p) ==
    CASE p = "black" -> 0
      [] p = "dark"  -> 137
      [] p = "white" -> 10000

\* squared Euclidean distance of two Lab values, in units of 1e-4
squared_distance(a, b) == (a - b) * (a - b)

\* prev_lab.squared_distance(&curr_lab) / 10000.
diff_value(prev, curr) ==
    squared_distance(from_rgb(prev), from_rgb(curr)) \div K

----------------------------------------------------------------------------
(* The grid crate: a dense row-major 2-D array *)

Cells(rows, cols) == (0 .. rows - 1) \X (0 .. cols - 1)

EmptyGrid == [rows |-> 0, cols |-> 0, data |-> <<>>]

Panicked == [ok |-> FALSE, grid |-> EmptyGrid]

\* Grid::new(rows, cols): every cell T::default().  With a zero dimension the
\* crate either panics or returns the empty grid, depending on its version;
\* a Vec beyond the capacity limit panics.
GridNew(rows, cols, dflt) ==
    IF rows = 0 \/ cols = 0
    THEN {Panicked, [ok |-> TRUE, grid |-> EmptyGrid]}
    ELSE IF rows * cols > AllocLimit
    THEN {Panicked}
    ELSE {[ok |-> TRUE,
           grid |-> [rows |-> rows, cols |-> cols,
                     data |-> [c \in Cells(rows, cols) |-> dflt]]]}

\* Grid::from_vec(pixels, cols)
GridFromVec(image) ==
    IF image.width = 0 \/ image.height = 0
    THEN {Panicked, [ok |-> TRUE, grid |-> EmptyGrid]}
    ELSE {[ok |-> TRUE,
           grid |-> [rows |-> image.height, cols |-> image.width,
                     data |-> image.pixels]]}

\* grid.iter_col(c) and grid.iter_row(r) as sequences
iter_col(g, c) == [i \in 1 .. g.rows |-> g.data[<<i - 1, c>>]]
iter_row(g, r) == [i \in 1 .. g.cols |-> g.data[<<r, i - 1>>]]

\* a - b on usize: the debug build panics below zero, the release build wraps
usize_sub(a, b) ==
    IF a >= b
    THEN {[ok |-> TRUE, v |-> a - b]}
    ELSE {[ok |-> FALSE, v |-> 0], [ok |-> TRUE, v |-> (a - b) % UsizeModulus]}

Counters(g) == [c \in DOMAIN g.data |-> 0]

----------------------------------------------------------------------------
(* GridPair::filter and the closure main passes to it *)

\* variants a slip in the closure would produce: >= for >, and < for >
threshold_inclusive(v) == IF v >= THRESHOLD THEN ONE ELSE 0
threshold_inverted(v) == IF v < THRESHOLD THEN ONE ELSE 0

\* |value| *value = if *value > 0.0025 { 1. } else { 0. }
threshold(v) == IF v > THRESHOLD THEN ONE ELSE 0

\* self.N.iter_mut().for_each(f) on one grid of the pair, f being main's closure
filter(g) == [g EXCEPT !.data = [c \in DOMAIN g.data |-> threshold(g.data[c])]]

----------------------------------------------------------------------------
(* GridPair::lines *)

\* variant: the closing cell counted into the run
run_len_inclusive(idx, start_idx) == idx - start_idx + 1

\* len: idx - start_idx
run_len(idx, start_idx) == idx - start_idx

\* variant: a run still open when the scan line ends is flushed
RECURSIVE scan_flush(_, _, _, _)
scan_flush(cells, i, start, out) ==
    IF i > Len(cells)
    THEN IF start # None
         THEN Append(out, [start |-> start, len |-> Len(cells) - start])
         ELSE out
    ELSE LET val == cells[i]
             idx == i - 1
         IN  IF start = None /\ val >= ONE
             THEN scan_flush(cells, i + 1, idx, out)
             ELSE IF start # None /\ val < ONE
             THEN scan_flush(cells, i + 1, None,
                             Append(out, [start |-> start, len |-> idx - start]))
             ELSE scan_flush(cells, i + 1, start, out)

\* The inner for loop over one scan line: `cells` is the iterator's content,
\* i - 1 the enumerate() index, `start` the Option (None or Some(idx)), `out`
\* the runs pushed so far.  The loop's end does nothing with `start`.
RECURSIVE scan(_, _, _, _)
scan(cells, i, start, out) ==
    IF i > Len(cells) THEN out
    ELSE LET val == cells[i]
             idx == i - 1
         IN  IF start = None /\ val >= ONE
             THEN scan(cells, i + 1, idx, out)
             ELSE IF start # None /\ val < ONE
             THEN scan(cells, i + 1, None,
                       Append(out, [start |-> start,
                                    len |-> run_len(idx, start)]))
             ELSE scan(cells, i + 1, start, out)

\* `let mut start = None` and the inner loop, for one scan line
scan_line(cells) == scan(cells, 1, None, <<>>)

VerticalLine(c, run) ==
    [dir |-> "Vertical", x |-> c, y |-> run.start, len |-> run.len]

HorizontalLine(r, run) ==
    [dir |-> "Horizontal", x |-> run.start, y |-> r, len |-> run.len]

\* for col in 0..self.0.cols()
RECURSIVE vertical_scan(_, _)
vertical_scan(g, c) ==
    IF c >= g.cols THEN <<>>
    ELSE LET runs == scan_line(iter_col(g, c))
         IN  [k \in 1 .. Len(runs) |-> VerticalLine(c, runs[k])]
             \o vertical_scan(g, c + 1)

\* for row in 0..self.1.rows()
RECURSIVE horizontal_scan(_, _)
horizontal_scan(g, r) ==
    IF r >= g.rows THEN <<>>
    ELSE LET runs == scan_line(iter_row(g, r))
         IN  [k \in 1 .. Len(runs) |-> HorizontalLine(r, runs[k])]
             \o horizontal_scan(g, r + 1)

\* GridPair::lines(&self)
lines_of(g0, g1) == vertical_scan(g0, 0) \o horizontal_scan(g1, 0)

----------------------------------------------------------------------------
(* impl Lines for Vec<Line> *)

\* variant: a Line of exactly `size` is dropped too
keeps_longer(line, sz) == line.len > sz

\* .filter(|line| line.len >= size)
keeps(line, sz) == line.len >= sz

\* discard_shorter_than(&mut self, size)
discard_shorter_than(ls, sz) == SelectSeq(ls, LAMBDA line : keeps(line, sz))

\* .skip(from).take(len) on an iterator of n items: the indices it yields
skip_take(n, from, len) == {k \in 0 .. n - 1 : from <= k /\ k < from + len}

\* variant: the green channel is not carried over
paint_horizontal_only(p) == <<255, 0, 0>>

\* |p| *p = [255, p[1], 0]
paint_horizontal(p) == <<255, p[2], 0>>
\* |p| *p = [p[0], 255, 0]
paint_vertical(p) == <<p[1], 255, 0>>

\* one iteration of `for line in self`: iter_row_mut / iter_col_mut panic on
\* an index outside the grid, skip/take stop silently at the iterator's end
paint_line(g, line) ==
    IF line.dir = "Horizontal"
    THEN IF line.y >= g.rows THEN Panicked
         ELSE [ok |-> TRUE,
               grid |-> [g EXCEPT !.data =
                   [c \in DOMAIN g.data |->
                       IF c[1] = line.y /\ c[2] \in skip_take(g.cols, line.x, line.len)
                       THEN paint_horizontal(g.data[c]) ELSE g.data[c]]]]
    ELSE IF line.x >= g.cols THEN Panicked
         ELSE [ok |-> TRUE,
               grid |-> [g EXCEPT !.data =
                   [c \in DOMAIN g.data |->
                       IF c[2] = line.x /\ c[1] \in skip_take(g.rows, line.y, line.len)
                       THEN paint_vertical(g.data[c]) ELSE g.data[c]]]]

\* the number of cells skip/take yields falls short of line.len
is_clipped(g, line) ==
    IF line.dir = "Horizontal"
    THEN line.y < g.rows /\ Cardinality(skip_take(g.cols, line.x, line.len)) < line.len
    ELSE line.x < g.cols /\ Cardinality(skip_take(g.rows, line.y, line.len)) < line.len

\* for line in self { ... }
RECURSIVE paint(_, _, _, _)
paint(g, ls, i, clip) ==
    IF i > Len(ls) THEN [ok |-> TRUE, grid |-> g, clipped |-> clip]
    ELSE LET r == paint_line(g, ls[i])
         IN  IF ~r.ok THEN [ok |-> FALSE, grid |-> EmptyGrid, clipped |-> clip]
             ELSE paint(r.grid, ls, i + 1, clip \/ is_clipped(g, ls[i]))

\* img_grid.iter().flatten(): the channels of the cells in row-major order
flatten(g) ==
    [k \in 1 .. g.rows * g.cols * 3 |->
        LET cell == (k - 1) \div 3
            channel == ((k - 1) % 3) + 1
        IN  g.data[<<cell \div g.cols, cell % g.cols>>][channel]]

NoImage == [width |-> 0, height |-> 0, buf |-> <<>>]

\* ImageBuffer::from_raw(width, height, buf).unwrap(): None, and so a panic,
\* when the buffer is shorter than width * height pixels
from_raw(width, height, buf) ==
    IF Len(buf) >= width * height * 3
    THEN [ok |-> TRUE, image |-> [width |-> width, height |-> height, buf |-> buf]]
    ELSE [ok |-> FALSE, image |-> NoImage]

\* to_image(&self, width, height): Grid::new(height, width), the loop, the
\* flattening and from_raw(..).unwrap()
to_image(ls, width, height) ==
    {IF o.ok
     THEN LET painted == paint(o.grid, ls, 1, FALSE)
              raw == from_raw(width, height, flatten(painted.grid))
          IN  [ok |-> painted.ok /\ raw.ok,
               image |-> IF painted.ok THEN raw.image ELSE NoImage,
               clipped |-> painted.clipped]
     ELSE [ok |-> FALSE, image |-> NoImage, clipped |-> FALSE] :
        o \in GridNew(height, width, <<0, 0, 0>>)}

\* .save("edges.png").unwrap(): an image with a zero dimension may be refused
\* by the encoder
save(image) == IF image.width = 0 \/ image.height = 0 THEN {TRUE, FALSE} ELSE {TRUE}

----------------------------------------------------------------------------
(* main(): the pipeline *)

Halt == /\ pc' = "panicked"
        /\ UNCHANGED <<img, row, col, lines, size, canvas, clipped, saved, before>>

\* main.rs:201-207: the raster is decoded, the two difference grids are
\* allocated with width - 1 columns and height - 1 rows, and the pixel grid
\* is built.  Any of the subtractions and allocations may panic.
Load ==
    /\ pc = "start"
    /\ underflow' = (img.width < 1 \/ img.height < 1)
    /\ \E w1 \in usize_sub(img.width, 1), h1 \in usize_sub(img.height, 1) :
       \E gx \in GridNew(img.height, w1.v, 0), gy \in GridNew(h1.v, img.width, 0),
          ig \in GridFromVec(img) :
          IF w1.ok /\ h1.ok /\ gx.ok /\ gy.ok /\ ig.ok
          THEN /\ pc' = "build_x"
               /\ diff_grid_x' = gx.grid
               /\ diff_grid_y' = gy.grid
               /\ img_grid' = ig.grid
               /\ written_x' = Counters(gx.grid)
               /\ written_y' = Counters(gy.grid)
               /\ UNCHANGED <<img, row, col, lines, size, canvas, clipped, saved, before>>
          ELSE /\ Halt
               /\ UNCHANGED <<img_grid, diff_grid_x, diff_grid_y, written_x, written_y>>

\* variant: one write per pixel, the first included
writes_every_pixel(n_pixels) == 0 .. n_pixels - 1

\* the cells one pass of the while-let loop writes: one per pixel after the
\* first, into the cells diff_row / diff_col yields in order
writes(n_pixels) == 0 .. n_pixels - 2

\* main.rs:210-221: one iteration of `for row in 0..img_grid.rows()`.
\* iter_row_mut panics on a row the grid does not have, expect("image is
\* empty") on a row without pixels, unwrap() when diff_row ends before img_row.
BuildX ==
    /\ pc = "build_x"
    /\ IF row >= img_grid.rows
       THEN /\ pc' = "build_y"
            /\ UNCHANGED <<img, img_grid, diff_grid_x, diff_grid_y, row, col,
                           written_x, written_y, lines, size, canvas,
                           underflow, clipped, saved, before>>
       ELSE IF \/ row >= diff_grid_x.rows
               \/ img_grid.cols = 0
               \/ Cardinality(writes(img_grid.cols)) > diff_grid_x.cols
       THEN /\ Halt
            /\ UNCHANGED <<img_grid, diff_grid_x, diff_grid_y, written_x,
                           written_y, underflow>>
       ELSE /\ diff_grid_x' = [diff_grid_x EXCEPT !.data =
                   [c \in DOMAIN diff_grid_x.data |->
                       IF c[1] = row /\ c[2] \in writes(img_grid.cols)
                       THEN diff_value(img_grid.data[<<row, c[2]>>],
                                       img_grid.data[<<row, c[2] + 1>>])
                       ELSE diff_grid_x.data[c]]]
            /\ written_x' = [c \in DOMAIN written_x |->
                   IF c[1] = row /\ c[2] \in writes(img_grid.cols)
                   THEN written_x[c] + 1 ELSE written_x[c]]
            /\ row' = row + 1
            /\ UNCHANGED <<pc, img, img_grid, diff_grid_y, col, written_y,
                           lines, size, canvas, underflow, clipped, saved, before>>

\* main.rs:224-235: one iteration of `for col in 0..img_grid.cols()`
BuildY ==
    /\ pc = "build_y"
    /\ IF col >= img_grid.cols
       THEN /\ pc' = "filter"
            /\ UNCHANGED <<img, img_grid, diff_grid_x, diff_grid_y, row, col,
                           written_x, written_y, lines, size, canvas,
                           underflow, clipped, saved, before>>
       ELSE IF \/ col >= diff_grid_y.cols
               \/ img_grid.rows = 0
               \/ Cardinality(writes(img_grid.rows)) > diff_grid_y.rows
       THEN /\ Halt
            /\ UNCHANGED <<img_grid, diff_grid_x, diff_grid_y, written_x,
                           written_y, underflow>>
       ELSE /\ diff_grid_y' = [diff_grid_y EXCEPT !.data =
                   [c \in DOMAIN diff_grid_y.data |->
                       IF c[2] = col /\ c[1] \in writes(img_grid.rows)
                       THEN diff_value(img_grid.data[<<c[1], col>>],
                                       img_grid.data[<<c[1] + 1, col>>])
                       ELSE diff_grid_y.data[c]]]
            /\ written_y' = [c \in DOMAIN written_y |->
                   IF c[2] = col /\ c[1] \in writes(img_grid.rows)
                   THEN written_y[c] + 1 ELSE written_y[c]]
            /\ col' = col + 1
            /\ UNCHANGED <<pc, img, img_grid, diff_grid_x, row, written_x,
                           lines, size, canvas, underflow, clipped, saved, before>>

\* main.rs:237-238: GridPair(diff_grid_x, diff_grid_y).filter(closure)
Filter ==
    /\ pc = "filter"
    /\ diff_grid_x' = filter(diff_grid_x)
    /\ diff_grid_y' = filter(diff_grid_y)
    /\ before' = <<diff_grid_x, diff_grid_y>>
    /\ pc' = "lines"
    /\ UNCHANGED <<img, img_grid, row, col, written_x, written_y, lines, size,
                   canvas, underflow, clipped, saved>>

\* main.rs:240: let mut lines = grid_pair.lines()
ExtractLines ==
    /\ pc = "lines"
    /\ lines' = lines_of(diff_grid_x, diff_grid_y)
    /\ pc' = "discard"
    /\ UNCHANGED <<img, img_grid, diff_grid_x, diff_grid_y, row, col, written_x,
                   written_y, size, canvas, underflow, clipped, saved, before>>

\* main.rs:241: lines.discard_shorter_than(size)
Discard ==
    /\ pc = "discard"
    /\ lines' = discard_shorter_than(lines, size)
    /\ before' = lines
    /\ pc' = "render"
    /\ UNCHANGED <<img, img_grid, diff_grid_x, diff_grid_y, row, col, written_x,
                   written_y, size, canvas, underflow, clipped, saved>>

\* main.rs:245-248: lines.to_image(width, height).save("edges.png").unwrap()
Render ==
    /\ pc = "render"
    /\ \E r \in to_image(lines, img.width, img.height) :
          IF r.ok
          THEN \E written \in save(r.image) :
                  /\ canvas' = r.image
                  /\ clipped' = r.clipped
                  /\ saved' = written
                  /\ pc' = IF written THEN "done" ELSE "panicked"
          ELSE /\ pc' = "panicked"
               /\ clipped' = r.clipped
               /\ UNCHANGED <<canvas, saved>>
    /\ UNCHANGED <<img, img_grid, diff_grid_x, diff_grid_y, row, col, written_x,
                   written_y, lines, size, underflow, before>>

----------------------------------------------------------------------------
(* Inputs *)

Raster(w, h, pix) == [width |-> w, height |-> h, pixels |-> pix]

\* every raster of black and white pixels up to MaxW x MaxH
GeneralImages ==
    UNION {{Raster(w, h, pix) : pix \in [Cells(h, w) -> TwoTone]} :
              <<w, h>> \in {d \in (0 .. MaxW) \X (0 .. MaxH) : d[1] * d[2] <= MaxPixels}}

\* a left part of width w / 2 in one colour, the rest in another (or the same)
SplitRaster(w, h, left, right) ==
    Raster(w, h, [c \in Cells(h, w) |-> IF c[2] < w \div 2 THEN left ELSE right])

SplitImages ==
    {SplitRaster(w, h, a, b) :
        w \in 0 .. MaxSplitW, h \in 0 .. MaxSplitH, a \in Palette, b \in Palette}

Images == GeneralImages \cup SplitImages

InitRest ==
    /\ img_grid = EmptyGrid
    /\ row = 0
    /\ col = 0
    /\ canvas = NoImage
    /\ underflow = FALSE
    /\ clipped = FALSE
    /\ saved = FALSE
    /\ before = <<>>

\* the state of main() after image::open
Init ==
    /\ pc = "start"
    /\ img \in Images
    /\ diff_grid_x = EmptyGrid
    /\ diff_grid_y = EmptyGrid
    /\ written_x = <<>>
    /\ written_y = <<>>
    /\ lines = <<>>
    /\ size = MIN_LEN
    /\ InitRest

Next == Load \/ BuildX \/ BuildY \/ Filter \/ ExtractLines \/ Discard \/ Render

Spec == Init /\ [][Next]_vars

----------------------------------------------------------------------------
(* The stages on their own, on inputs drawn from bounded sets *)

SeqsUpTo(S, n) == UNION {[1 .. k -> S] : k \in 0 .. n}

Blank(w, h) == Raster(w, h, [c \in Cells(h, w) |-> "black"])

GridsOver(rows, cols, S) ==
    {[rows |-> rows, cols |-> cols, data |-> d] : d \in [Cells(rows, cols) -> S]}

\* values around the threshold, and 1.0
FilterValues == {0, THRESHOLD - 1, THRESHOLD, THRESHOLD + 1, ONE}

\* GridPair::filter with main's closure on any pair of difference grids
InitFilter ==
    /\ pc = "filter"
    /\ \E w \in 2 .. MaxFilterW :
          /\ img = Blank(w, 2)
          /\ diff_grid_x \in GridsOver(2, w - 1, FilterValues)
          /\ diff_grid_y \in GridsOver(1, w, FilterValues)
    /\ written_x = <<>>
    /\ written_y = <<>>
    /\ lines = <<>>
    /\ size = MIN_LEN
    /\ InitRest

SpecFilter == InitFilter /\ [][Filter]_vars

DiscardLines ==
    [dir : {"Horizontal", "Vertical"}, x : {0, 1}, y : {0}, len : 1 .. MaxSegLen]

\* discard_shorter_than on any list and any size
InitDiscard ==
    /\ pc = "discard"
    /\ img = Blank(MaxSegLen + 1, MaxSegLen + 1)
    /\ diff_grid_x = EmptyGrid
    /\ diff_grid_y = EmptyGrid
    /\ written_x = <<>>
    /\ written_y = <<>>
    /\ lines \in SeqsUpTo(DiscardLines, MaxLines)
    /\ size \in 0 .. MaxSegLen + 1
    /\ InitRest

SpecDiscard == InitDiscard /\ [][Discard]_vars

\* Lines in and out of the canvas
RenderLines ==
    [dir : {"Horizontal", "Vertical"}, x : 0 .. MaxCanvas, y : 0 .. MaxCanvas,
     len : 1 .. MaxCanvas]

\* to_image on any list of up to two Lines and any canvas size
InitRender ==
    /\ pc = "render"
    /\ \E w \in 1 .. MaxCanvas, h \in 1 .. MaxCanvas : img = Blank(w, h)
    /\ diff_grid_x = EmptyGrid
    /\ diff_grid_y = EmptyGrid
    /\ written_x = <<>>
    /\ written_y = <<>>
    /\ lines \in SeqsUpTo(RenderLines, 2)
    /\ size = MIN_LEN
    /\ InitRest

SpecRender == InitRender /\ [][Render]_vars

----------------------------------------------------------------------------
(* Properties of GridPair::lines, read off the binarized grids *)

IsOn(v) == v >= ONE

Binarized(g) == \A c \in DOMAIN g.data : g.data[c] \in {0, ONE}

\* cells s .. s + n - 1 (0-based) of a scan line are a maximal run of on cells
\* that an off cell of the same scan line follows
ClosedRun(cells, s, n) ==
    /\ n >= 1
    /\ s >= 0
    /\ s + n < Len(cells)
    /\ \A k \in s .. s + n - 1 : IsOn(cells[k + 1])
    /\ s > 0 => ~IsOn(cells[s])
    /\ ~IsOn(cells[s + n + 1])

ClosedRuns(cells) ==
    {r \in (0 .. Len(cells)) \X (1 .. Len(cells)) : ClosedRun(cells, r[1], r[2])}

\* the last cell of the scan line is on: a run is open when the line ends
EndsOpen(cells) == Len(cells) > 0 /\ IsOn(cells[Len(cells)])

Occurrences(ls, line) == Cardinality({i \in DOMAIN ls : ls[i] = line})

OfScanLine(ls, dir, n) ==
    {i \in DOMAIN ls :
        ls[i].dir = dir /\ (IF dir = "Vertical" THEN ls[i].x ELSE ls[i].y) = n}

Covers(line, k) ==
    IF line.dir = "Vertical" THEN line.y <= k /\ k < line.y + line.len
                             ELSE line.x <= k /\ k < line.x + line.len

\* C1: after GridPair::lines on a binarized pair, every scan line (column of
\* the column-difference grid, row of the row-difference grid) has
\* contributed exactly its closed maximal runs, each once, and nothing else;
\* no emitted Line covers the last cell of its scan line, so a run that is
\* open when the scan line ends is not emitted and none is carried over.
C1_OpenRunDropped ==
    pc = "discard" =>
        /\ Binarized(diff_grid_x) /\ Binarized(diff_grid_y)
        /\ \A c \in 0 .. diff_grid_x.cols - 1 :
              LET cells == iter_col(diff_grid_x, c)
              IN  /\ \A r \in ClosedRuns(cells) :
                        Occurrences(lines, VerticalLine(c, [start |-> r[1], len |-> r[2]])) = 1
                  /\ Cardinality(OfScanLine(lines, "Vertical", c))
                        = Cardinality(ClosedRuns(cells))
                  /\ \A i \in OfScanLine(lines, "Vertical", c) :
                        ~Covers(lines[i], Len(cells) - 1)
        /\ \A r \in 0 .. diff_grid_y.rows - 1 :
              LET cells == iter_row(diff_grid_y, r)
              IN  /\ \A q \in ClosedRuns(cells) :
                        Occurrences(lines, HorizontalLine(r, [start |-> q[1], len |-> q[2]])) = 1
                  /\ Cardinality(OfScanLine(lines, "Horizontal", r))
                        = Cardinality(ClosedRuns(cells))
                  /\ \A i \in OfScanLine(lines, "Horizontal", r) :
                        ~Covers(lines[i], Len(cells) - 1)
        /\ \A i \in DOMAIN lines :
              \/ lines[i].dir = "Vertical" /\ lines[i].x < diff_grid_x.cols
              \/ lines[i].dir = "Horizontal" /\ lines[i].y < diff_grid_y.rows

\* a column holds a closed run and then a run that is open at its end, and
\* only the closed one was emitted
C1_Witness ==
    /\ pc = "discard"
    /\ \E c \in 0 .. diff_grid_x.cols - 1 :
          /\ ClosedRuns(iter_col(diff_grid_x, c)) # {}
          /\ EndsOpen(iter_col(diff_grid_x, c))
          /\ Cardinality(OfScanLine(lines, "Vertical", c)) = 1
    /\ \E r \in 0 .. diff_grid_y.rows - 1 :
          /\ ClosedRuns(iter_row(diff_grid_y, r)) = {}
          /\ EndsOpen(iter_row(diff_grid_y, r))

\* C2: every Line GridPair::lines emits is a maximal run of on cells of its
\* scan line with an off cell after it: len >= 1, the span inside the grid,
\* x / y the scanned column / row and the run's first index.
C2_SegmentsAreClosedRuns ==
    pc = "discard" =>
        \A i \in DOMAIN lines :
            LET line == lines[i]
            IN  /\ line.len >= 1
                /\ line.dir \in {"Vertical", "Horizontal"}
                /\ line.dir = "Vertical" =>
                      /\ line.x \in 0 .. diff_grid_x.cols - 1
                      /\ line.y + line.len < diff_grid_x.rows
                      /\ ClosedRun(iter_col(diff_grid_x, line.x), line.y, line.len)
                /\ line.dir = "Horizontal" =>
                      /\ line.y \in 0 .. diff_grid_y.rows - 1
                      /\ line.x + line.len < diff_grid_y.cols
                      /\ ClosedRun(iter_row(diff_grid_y, line.y), line.x, line.len)

\* both orientations were emitted, one of them a run of two cells that does
\* not start at index 0
C2_Witness ==
    /\ pc = "discard"
    /\ \E i, j \in DOMAIN lines :
          /\ lines[i].dir = "Vertical"
          /\ lines[j].dir = "Horizontal"
          /\ lines[i].len = 2 \/ lines[j].len = 2
          /\ lines[i].y > 0 \/ lines[j].x > 0

----------------------------------------------------------------------------
(* Properties of the Thresholder *)

SameShape(after, given) ==
    /\ after.rows = given.rows
    /\ after.cols = given.cols
    /\ DOMAIN after.data = DOMAIN given.data

\* every cell is 1.0 where the given value is >= T, 0.0 elsewhere
AtLeastThreshold(after, given) ==
    /\ SameShape(after, given)
    /\ \A c \in DOMAIN given.data :
          after.data[c] = IF given.data[c] >= THRESHOLD THEN ONE ELSE 0

\* every cell is 1.0 where the given value is > T, 0.0 elsewhere
AboveThreshold(after, given) ==
    /\ SameShape(after, given)
    /\ \A c \in DOMAIN given.data :
          after.data[c] = IF given.data[c] > THRESHOLD THEN ONE ELSE 0

HasValue(g, v) == \E c \in DOMAIN g.data : g.data[c] = v

\* C3 as claimed: the filter turns every value v of both grids into 1.0 if
\* v >= 0.0025 and into 0.0 otherwise, so a value of exactly 0.0025 becomes 1.0.
C3_AtLeastThresholdIsOn ==
    pc = "lines" =>
        /\ AtLeastThreshold(diff_grid_x, before[1])
        /\ AtLeastThreshold(diff_grid_y, before[2])

\* C3 as amended: the filter turns every value v of both grids into 1.0 if
\* v > 0.0025 and into 0.0 otherwise; a value of exactly 0.0025 becomes 0.0,
\* and every cell of both grids is 0.0 or 1.0 afterwards.
C3_AboveThresholdIsOn ==
    pc = "lines" =>
        /\ AboveThreshold(diff_grid_x, before[1])
        /\ AboveThreshold(diff_grid_y, before[2])
        /\ \A c \in DOMAIN before[1].data :
              before[1].data[c] = THRESHOLD => diff_grid_x.data[c] = 0
        /\ \A c \in DOMAIN before[2].data :
              before[2].data[c] = THRESHOLD => diff_grid_y.data[c] = 0
        /\ Binarized(diff_grid_x) /\ Binarized(diff_grid_y)

\* a grid held a value of exactly the threshold, one just above and one
\* just below it, and the filter ran
C3_Witness ==
    /\ pc = "lines"
    /\ HasValue(before[1], THRESHOLD)
    /\ HasValue(before[1], THRESHOLD + 1)
    /\ HasValue(before[2], THRESHOLD)
    /\ HasValue(before[2], THRESHOLD - 1)
    /\ HasValue(diff_grid_x, ONE) /\ HasValue(diff_grid_x, 0)

----------------------------------------------------------------------------
(* Properties of discard_shorter_than *)

Survivors(ls, sz) == {i \in DOMAIN ls : ls[i].len >= sz}

\* the j-th smallest index of a set of indices
Nth(S, j) == CHOOSE i \in S : Cardinality({k \in S : k <= i}) = j

\* C4: after discard_shorter_than(size) the list is exactly the given Lines
\* of len >= size, in the order given and unchanged: the j-th Line left is the
\* j-th given Line of len >= size.
C4_DiscardKeepsExactlyLongEnough ==
    pc = "render" =>
        /\ Len(lines) = Cardinality(Survivors(before, size))
        /\ \A j \in DOMAIN lines : lines[j] = before[Nth(Survivors(before, size), j)]

\* Lines of len size - 1, size and size + 1 were given, in an order that puts
\* the dropped one between the two kept ones
C4_Witness ==
    /\ pc = "render"
    /\ size >= 2
    /\ Len(before) = 3
    /\ before[1].len = size + 1
    /\ before[2].len = size - 1
    /\ before[3].len = size
    /\ Len(lines) = 2

----------------------------------------------------------------------------
(* Properties of to_image *)

InBounds(line, width, height) ==
    /\ line.x >= 0 /\ line.y >= 0 /\ line.len >= 1
    /\ IF line.dir = "Horizontal"
       THEN line.y < height /\ line.x + line.len <= width
       ELSE line.x < width /\ line.y + line.len <= height

AllInBounds(ls, width, height) ==
    \A i \in DOMAIN ls : InBounds(ls[i], width, height)

\* cell (r, c) lies in the span of a Line of the orientation
InSpan(ls, dir, r, c) ==
    \E i \in DOMAIN ls :
        /\ ls[i].dir = dir
        /\ IF dir = "Horizontal"
           THEN ls[i].y = r /\ ls[i].x <= c /\ c < ls[i].x + ls[i].len
           ELSE ls[i].x = c /\ ls[i].y <= r /\ r < ls[i].y + ls[i].len

\* the pixel at column x, row y of an RGB ImageBuffer
PixelAt(image, x, y) ==
    LET at == (y * image.width + x) * 3
    IN  <<image.buf[at + 1], image.buf[at + 2], image.buf[at + 3]>>

Pixels(image) ==
    {PixelAt(image, x, y) : x \in 0 .. image.width - 1, y \in 0 .. image.height - 1}

\* C5: for a list of Lines inside the canvas, in any order, to_image returns
\* a width x height canvas whose cell has red 255 exactly if a Horizontal
\* Line spans it, green 255 exactly if a Vertical Line spans it, and is
\* black (0, 0, 0) in every other channel and cell; nothing panics or clips.
C5_CanvasShowsSpans ==
    (pc # "render" /\ AllInBounds(lines, img.width, img.height)) =>
        /\ pc = "done"
        /\ ~clipped
        /\ canvas.width = img.width
        /\ canvas.height = img.height
        /\ Len(canvas.buf) = img.width * img.height * 3
        /\ \A x \in 0 .. img.width - 1, y \in 0 .. img.height - 1 :
              PixelAt(canvas, x, y) =
                  << IF InSpan(lines, "Horizontal", y, x) THEN 255 ELSE 0,
                     IF InSpan(lines, "Vertical", y, x) THEN 255 ELSE 0,
                     0 >>

\* a Vertical Line was painted first and a Horizontal one over it: one cell
\* shows both channels, another stays black
C5_Witness ==
    /\ pc = "done"
    /\ AllInBounds(lines, img.width, img.height)
    /\ Len(lines) = 2
    /\ lines[1].dir = "Vertical" /\ lines[2].dir = "Horizontal"
    /\ img.width # img.height
    /\ <<255, 255, 0>> \in Pixels(canvas)
    /\ <<0, 0, 0>> \in Pixels(canvas)

\* C6 as claimed: to_image rejects a Line whose span leaves the canvas with a
\* reported error: it does not panic, does not clip the Line and returns no
\* canvas that is then saved.
C6_OutOfBoundsRejected ==
    (pc # "render" /\ ~AllInBounds(lines, img.width, img.height)) =>
        /\ pc = "rejected"
        /\ ~clipped
        /\ ~saved

----------------------------------------------------------------------------
(* Properties of main() *)

Empty(image) == image.width = 0 \/ image.height = 0

Running == pc \notin {"start", "panicked"}

\* C7 as claimed: for a raster of width 0 or height 0 main reports a
\* configuration error: no usize subtraction underflows, nothing panics and
\* nothing is written.
C7_EmptyRasterReported ==
    (Empty(img) /\ pc # "start") =>
        /\ pc = "configuration error"
        /\ ~underflow
        /\ ~saved

AfterBuild == {"filter", "lines", "discard", "render", "done"}

\* C8: for a raster of width W >= 2 and height H >= 2 the column-difference
\* grid is H x (W - 1) and the row-difference grid (H - 1) x W; once both
\* loops are done, cell (r, c) of the first holds the squared Lab distance of
\* pixels (r, c) and (r, c + 1) over 10000 and cell (r, c) of the second that
\* of pixels (r, c) and (r + 1, c); no cell is ever written twice, each has
\* been written once when the loops are done, and nothing panics.
C8_DifferenceGrids ==
    (img.width >= 2 /\ img.height >= 2) =>
        /\ pc # "panicked"
        /\ pc # "start" =>
              /\ diff_grid_x.rows = img.height /\ diff_grid_x.cols = img.width - 1
              /\ diff_grid_y.rows = img.height - 1 /\ diff_grid_y.cols = img.width
              /\ DOMAIN diff_grid_x.data = Cells(img.height, img.width - 1)
              /\ DOMAIN diff_grid_y.data = Cells(img.height - 1, img.width)
              /\ \A c \in DOMAIN written_x : written_x[c] <= 1
              /\ \A c \in DOMAIN written_y : written_y[c] <= 1
        /\ pc \in AfterBuild =>
              /\ \A c \in Cells(img.height, img.width - 1) : written_x[c] = 1
              /\ \A c \in Cells(img.height - 1, img.width) : written_y[c] = 1
        /\ pc = "filter" =>
              /\ \A c \in Cells(img.height, img.width - 1) :
                    diff_grid_x.data[c] =
                        ((from_rgb(img.pixels[c]) - from_rgb(img.pixels[<<c[1], c[2] + 1>>])) ^ 2)
                            \div 10000
              /\ \A c \in Cells(img.height - 1, img.width) :
                    diff_grid_y.data[c] =
                        ((from_rgb(img.pixels[c]) - from_rgb(img.pixels[<<c[1] + 1, c[2]>>])) ^ 2)
                            \div 10000

\* both loops are done on a raster of three columns whose grids hold zero
\* and non-zero distances
C8_Witness ==
    /\ pc = "filter"
    /\ img.width >= 3 /\ img.height >= 3
    /\ HasValue(diff_grid_x, 0) /\ HasValue(diff_grid_x, ONE)
    /\ HasValue(diff_grid_y, 0) /\ HasValue(diff_grid_y, ONE)
    /\ \A c \in DOMAIN written_x : written_x[c] = 1

Uniform(image) ==
    \A c, d \in DOMAIN image.pixels : image.pixels[c] = image.pixels[d]

AllZero(g) == \A c \in DOMAIN g.data : g.data[c] = 0

\* C9: for a raster (at least 2 x 2) whose pixels are all the same, both
\* difference grids are all zero after the threshold, GridPair::lines yields
\* no Line, none is left after discard_shorter_than, and the run ends with
\* the canvas saved.
C9_UniformRasterNoSegments ==
    (Uniform(img) /\ img.width >= 2 /\ img.height >= 2) =>
        /\ pc # "panicked"
        /\ pc \in {"lines", "discard", "render", "done"} =>
              AllZero(diff_grid_x) /\ AllZero(diff_grid_y)
        /\ pc \in {"discard", "render", "done"} => lines = <<>>
        /\ pc = "done" =>
              /\ saved
              /\ canvas.width = img.width /\ canvas.height = img.height
              /\ Pixels(canvas) = {<<0, 0, 0>>}

\* the run on a uniform white raster has finished
C9_Witness ==
    /\ pc = "done"
    /\ Uniform(img)
    /\ img.width >= 3 /\ img.height >= 3
    /\ img.pixels[<<0, 0>>] = "white"
    /\ lines = <<>>

\* two solid halves of width W / 2 whose distance over 10000 is above the
\* threshold
SplitContrast(image) ==
    /\ image.width >= 2 /\ image.height >= 2
    /\ image.width % 2 = 0
    /\ \E a, b \in Palette :
          /\ diff_value(a, b) > THRESHOLD
          /\ image = SplitRaster(image.width, image.height, a, b)

Boundary(image) == image.width \div 2 - 1

\* the thresholded column-difference grid is on exactly in the boundary
\* column, the row-difference grid is all off
OnlyBoundaryOn ==
    /\ \A c \in DOMAIN diff_grid_x.data :
          diff_grid_x.data[c] = IF c[2] = Boundary(img) THEN ONE ELSE 0
    /\ AllZero(diff_grid_y)

\* C10 as claimed: on such a raster the extraction followed by the length
\* filter with any L <= H yields exactly one Line: Vertical, of length H, at
\* x = W / 2 - 1, y = 0.
C10_OneVerticalSegment ==
    (SplitContrast(img) /\ pc = "discard") =>
        /\ OnlyBoundaryOn
        /\ \A L \in 0 .. img.height :
              discard_shorter_than(lines, L) =
                  << [dir |-> "Vertical", x |-> Boundary(img), y |-> 0,
                      len |-> img.height] >>

\* C10 as amended: on such a raster the thresholded column-difference grid is
\* on exactly in column W / 2 - 1 and the row-difference grid is all off, and
\* the extraction yields no Line at all, Vertical or Horizontal: the run in
\* column W / 2 - 1 covers all H rows and is open when the column ends.  So
\* no Line is left after the length filter for any L.
C10_BoundaryRunDropped ==
    SplitContrast(img) =>
        /\ pc # "panicked"
        /\ pc \in {"lines", "discard"} => OnlyBoundaryOn
        /\ pc = "discard" =>
              /\ lines = <<>>
              /\ \A L \in 0 .. img.height : discard_shorter_than(lines, L) = <<>>
        /\ pc \in {"render", "done"} => lines = <<>>

\* a raster of two halves of width 2 went through the extraction
C10_Witness ==
    /\ pc = "discard"
    /\ SplitContrast(img)
    /\ img.width = 4 /\ img.height >= 3
    /\ \A r \in 0 .. img.height - 1 : diff_grid_x.data[<<r, 1>>] = ONE

====
